---- MODULE Spec2Model ----
(***************************************************************************)
(* Model of notify.py, the Codex desktop-notification shim.                *)
(*                                                                         *)
(* A Python str is a sequence of codepoints; every codepoint is written as *)
(* a one-element TLA+ string ("a", " ", "-", ...).  Codepoints that are    *)
(* not printable ASCII carry their name: "TAB" is U+0009 and "U+00E2",     *)
(* "U+20AC", "U+00A6" are the three codepoints of the literal that         *)
(* _short_text appends.                                                    *)
(***************************************************************************)
EXTENDS Integers, Sequences, FiniteSets, TLC

VARIABLES
    pc,             \* position of main: start, parse, dispatch, ... , done, raised
    argc,           \* number of CLI arguments, len(sys.argv) - 1
    arg,            \* what json.loads(sys.argv[1]) yields: a parse error or a value
    notification,   \* the parsed event (main, line 113)
    title,          \* local `title` of main
    shaped,         \* `message` as lines 136-140 leave it
    message,        \* local `message` of main
    summarized,     \* whether main took the _summarize_structured branch
    calls,          \* subprocess.run invocations so far, in order
    primaryResult,  \* outcome of the terminal-notifier call
    fallbackResult, \* outcome of the osascript call
    exitCode,       \* value returned by main (-1: nothing returned)
    raised,         \* exception that left main ("none" if none)
    st,             \* one call of _short_text: value, max_chars, result
    sm              \* one call of _summarize_structured: msg, result

vars ==
    <<pc, argc, arg, notification, title, shaped, message, summarized, calls,
      primaryResult, fallbackResult, exitCode, raised, st, sm>>

mainVars ==
    <<pc, argc, arg, notification, title, shaped, message, summarized, calls,
      primaryResult, fallbackResult, exitCode, raised>>

----------------------------------------------------------------------------
(* Bounds of the model. *)

MaxLen ==
    4

MaxChars ==
    4

----------------------------------------------------------------------------
(* Python str primitives. *)

Rep(c, n) ==
    [i \in 1..n |-> c]

Whitespace ==
    {" ", "TAB"}

IsSpace(c) ==
    c \in Whitespace

\* s[:n] for a Python str, n possibly negative.
PySlice(s, n) ==
    IF n >= 0
    THEN SubSeq(s, 1, IF n < Len(s) THEN n ELSE Len(s))
    ELSE SubSeq(s, 1, IF Len(s) + n > 0 THEN Len(s) + n ELSE 0)

\* Indices of the codepoints of s that are not whitespace.
Solid(s) ==
    {i \in 1..Len(s) : ~IsSpace(s[i])}

Lowest(S) ==
    CHOOSE i \in S : \A j \in S : i <= j

\* str.rstrip(), str.lstrip() and str.strip() with no argument.
RStrip(s) ==
    IF Solid(s) = {}
    THEN <<>>
    ELSE SubSeq(s, 1, Len(s) - Lowest({k \in 0..(Len(s) - 1) : ~IsSpace(s[Len(s) - k])}))

LStrip(s) ==
    IF Solid(s) = {} THEN <<>> ELSE SubSeq(s, Lowest(Solid(s)), Len(s))

Strip(s) ==
    LStrip(RStrip(s))

\* str.split() with no separator: the maximal runs of non-whitespace, in
\* order.  A word starts at a solid index whose predecessor is not solid and
\* runs up to the last index before the next whitespace.
WordStarts(s) ==
    {i \in Solid(s) : i = 1 \/ IsSpace(s[i - 1])}

WordEnd(s, i) ==
    Lowest({e \in i..Len(s) : e = Len(s) \/ IsSpace(s[e + 1])})

Split(s) ==
    LET starts == WordStarts(s)
        Nth(k) == CHOOSE i \in starts : Cardinality({j \in starts : j < i}) = k - 1
    IN  [k \in 1..Cardinality(starts) |-> SubSeq(s, Nth(k), WordEnd(s, Nth(k)))]

\* sep.join(words)
RECURSIVE Join(_, _)
Join(sep, words) ==
    IF words = <<>>
    THEN <<>>
    ELSE IF Len(words) = 1
         THEN words[1]
         ELSE words[1] \o sep \o Join(sep, Tail(words))

StartsWith(s, p) ==
    Len(s) >= Len(p) /\ SubSeq(s, 1, Len(p)) = p

EndsWith(s, p) ==
    Len(s) >= Len(p) /\ SubSeq(s, Len(s) - Len(p) + 1, Len(s)) = p

----------------------------------------------------------------------------
(* _short_text *)

\* The literal appended on truncation (line 62): three codepoints.
Ellipsis ==
    <<"U+00E2", "U+20AC", "U+00A6">>

Collapse(value) ==
    Join(<<" ">>, Split(value))

ShortText(value, max_chars) ==
    LET snippet == Collapse(value)
    IN  IF Len(snippet) > max_chars
        THEN RStrip(PySlice(snippet, max_chars - 1)) \o Ellipsis
        ELSE snippet

----------------------------------------------------------------------------
(* JSON values as Python objects.  Every value is a record of one shape:   *)
(*   k      "absent" (key missing), "null", "str", "num", "list", "dict"   *)
(*   s      the codepoints of a str                                        *)
(*   n      the number, the length of a list, or the number of keys of a   *)
(*          dict other than "findings"                                     *)
(*   fk     for a dict: "absent" (no key "findings"), "list", or "other"   *)
(*          (the key holds something that is not a list)                   *)
(*   items  for a dict whose "findings" is a list: its elements            *)

JVal(k, s, n, fk, items) ==
    [k |-> k, s |-> s, n |-> n, fk |-> fk, items |-> items]

JAbsent ==
    JVal("absent", <<>>, 0, "absent", <<>>)

JNull ==
    JVal("null", <<>>, 0, "absent", <<>>)

JStr(s) ==
    JVal("str", s, 0, "absent", <<>>)

JNum(n) ==
    JVal("num", <<>>, n, "absent", <<>>)

JList(n) ==
    JVal("list", <<>>, n, "absent", <<>>)

JDict(n) ==
    JVal("dict", <<>>, n, "absent", <<>>)

JFindings(items) ==
    JVal("dict", <<>>, 0, "list", items)

JFindingsNotList ==
    JVal("dict", <<>>, 0, "other", <<>>)

\* An element of "findings": a dict with optional "title" (a str) and
\* optional "priority" (null or a number), or something that is not a dict.
Finding(isDict, tk, ts, pk, pn) ==
    [isDict |-> isDict, tk |-> tk, ts |-> ts, pk |-> pk, pn |-> pn]

\* Python truthiness (bool(v)); a missing key reads as None.
Truthy(v) ==
    CASE v.k = "absent" -> FALSE
      [] v.k = "null"   -> FALSE
      [] v.k = "str"    -> v.s # <<>>
      [] v.k = "num"    -> v.n # 0
      [] v.k = "list"   -> v.n > 0
      [] v.k = "dict"   -> v.fk # "absent" \/ v.n > 0

DigitChars ==
    <<"0", "1", "2", "3", "4", "5", "6", "7", "8", "9">>

\* str(n) for a natural number.
RECURSIVE ToStr(_)
ToStr(n) ==
    IF n < 10
    THEN <<DigitChars[n + 1]>>
    ELSE ToStr(n \div 10) \o <<DigitChars[(n % 10) + 1]>>

FullDetailsSentence ==
    <<"T", "a", "s", "k", " ", "c", "o", "m", "p", "l", "e", "t", "e", ".", " ", "S", "e", "e", " ", "C", "o", "d", "e", "x", " ", "f", "o", "r", " ", "f", "u", "l", "l", " ", "d", "e", "t", "a", "i", "l", "s", ".">>

NoFindingsSentence ==
    <<"R", "e", "v", "i", "e", "w", " ", "c", "o", "m", "p", "l", "e", "t", "e", " ", "w", "i", "t", "h", " ", "n", "o", " ", "f", "i", "n", "d", "i", "n", "g", "s", ".">>

StructuredSentence ==
    <<"T", "a", "s", "k", " ", "c", "o", "m", "p", "l", "e", "t", "e", ".", " ", "S", "e", "e", " ", "C", "o", "d", "e", "x", " ", "f", "o", "r", " ", "s", "t", "r", "u", "c", "t", "u", "r", "e", "d", " ", "o", "u", "t", "p", "u", "t", ".">>

ReviewPrefix ==
    <<"R", "e", "v", "i", "e", "w", " ", "c", "o", "m", "p", "l", "e", "t", "e", " ", "w", "i", "t", "h", " ">>

FindingWord ==
    <<" ", "f", "i", "n", "d", "i", "n", "g">>

CodexTitle ==
    <<"C", "o", "d", "e", "x">>

CodexPrefix ==
    <<"C", "o", "d", "e", "x", ":", " ">>

GroupPrefix ==
    <<"c", "o", "d", "e", "x", "-">>

NoneRepr ==
    <<"N", "o", "n", "e">>

ScriptHead ==
    <<"d", "i", "s", "p", "l", "a", "y", " ", "n", "o", "t", "i", "f", "i", "c", "a", "t", "i", "o", "n", " ">>

ScriptMid ==
    <<" ", "w", "i", "t", "h", " ", "t", "i", "t", "l", "e", " ">>

\* str(v) for the values main applies it to.
PyStr(v) ==
    CASE v.k = "str"  -> v.s
      [] v.k = "num"  -> ToStr(v.n)
      [] v.k = "null" -> NoneRepr

----------------------------------------------------------------------------
(* json.loads on the texts the model feeds it.  Surrounding whitespace is  *)
(* skipped; the documents below parse to the values shown and every other  *)
(* text of the model that starts with "{" or "[" is not JSON.              *)

TxtEmptyFindings ==
    <<"{", "\"", "f", "i", "n", "d", "i", "n", "g", "s", "\"", ":", " ", "[", "]", "}">>

TxtTwoFindings ==
    <<"{", "\"", "f", "i", "n", "d", "i", "n", "g", "s", "\"", ":", "[", "{", "\"", "t", "i", "t", "l", "e", "\"", ":", "\"", "X", "\"", ",", "\"", "p", "r", "i", "o", "r", "i", "t", "y", "\"", ":", "1", "}", ",", "{", "\"", "t", "i", "t", "l", "e", "\"", ":", "\"", "Y", "\"", "}", "]", "}">>

TxtEmptyDict ==
    <<"{", "}">>

TxtEmptyList ==
    <<"[", "]">>

TxtOtherDict ==
    <<"{", "\"", "o", "k", "\"", ":", " ", "1", "}">>

TxtBroken ==
    <<"{", "\"", "f", "i", "n", "d", "i", "n", "g", "s", "\"", ":", " ", "[">>

TxtLongHead ==
    <<"{", "\"", "f", "i", "n", "d", "i", "n", "g", "s", "\"", ":", "[", "{", "\"", "t", "i", "t", "l", "e", "\"", ":", "\"">>

TxtLongTail ==
    <<"\"", "}", "]", "}">>

IsLongTitleText(t) ==
    /\ StartsWith(t, TxtLongHead)
    /\ EndsWith(t, TxtLongTail)
    /\ Len(t) >= Len(TxtLongHead) + Len(TxtLongTail)
    /\ \A i \in (Len(TxtLongHead) + 1)..(Len(t) - Len(TxtLongTail)) : t[i] = "a"

LongTitleOf(t) ==
    SubSeq(t, Len(TxtLongHead) + 1, Len(t) - Len(TxtLongTail))

JsonLoads(text) ==
    LET t == Strip(text)
    IN  CASE t = TxtEmptyFindings -> [ok |-> TRUE, v |-> JFindings(<<>>)]
          [] t = TxtTwoFindings ->
                [ok |-> TRUE,
                 v  |-> JFindings(<<Finding(TRUE, "str", <<"X">>, "int", 1),
                                    Finding(TRUE, "str", <<"Y">>, "absent", 0)>>)]
          [] t = TxtEmptyDict -> [ok |-> TRUE, v |-> JDict(0)]
          [] t = TxtEmptyList -> [ok |-> TRUE, v |-> JList(0)]
          [] t = TxtOtherDict -> [ok |-> TRUE, v |-> JDict(1)]
          [] IsLongTitleText(t) ->
                [ok |-> TRUE,
                 v  |-> JFindings(<<Finding(TRUE, "str", LongTitleOf(t), "absent", 0)>>)]
          [] OTHER -> [ok |-> FALSE, v |-> JNull]

----------------------------------------------------------------------------
(* _summarize_structured *)

\* isinstance(msg, str) and msg.lstrip().startswith(("{", "["))
StrLooksLikeJson(v) ==
    /\ v.k = "str"
    /\ LStrip(v.s) # <<>>
    /\ LStrip(v.s)[1] \in {"{", "["}

\* The piece one of the first three findings contributes; <<>> when the
\* element is skipped (not a dict, or neither title nor priority).
Piece(f) ==
    IF ~f.isDict
    THEN <<>>
    ELSE LET ftitle == IF f.tk = "str" THEN Strip(f.ts) ELSE <<>>
             label  == <<"[", "P">> \o ToStr(f.pn) \o <<"]">>
         IN  IF f.pk = "int"
             THEN IF ftitle # <<>> THEN label \o <<" ">> \o ftitle ELSE label
             ELSE ftitle

\* Mutant of Parts: every finding is listed, not only the first three.
PartsAll(findings) ==
    LET NonEmpty(p) == p # <<>>
    IN  SelectSeq([i \in 1..Len(findings) |-> Piece(findings[i])], NonEmpty)

Parts(findings) ==
    LET firstThree == SubSeq(findings, 1, IF Len(findings) < 3 THEN Len(findings) ELSE 3)
        NonEmpty(p) == p # <<>>
    IN  SelectSeq([i \in 1..Len(firstThree) |-> Piece(firstThree[i])], NonEmpty)

SummarizeStructured(msg) ==
    LET parsed == IF StrLooksLikeJson(msg)
                  THEN JsonLoads(msg.s)
                  ELSE [ok |-> TRUE, v |-> msg]
        data   == parsed.v
    IN  IF ~parsed.ok
        THEN FullDetailsSentence
        ELSE IF data.k = "dict" /\ data.fk = "list"
             THEN IF data.items = <<>>
                  THEN NoFindingsSentence
                  ELSE ReviewPrefix \o ToStr(Len(data.items)) \o FindingWord
                       \o (IF Len(data.items) # 1 THEN <<"s">> ELSE <<>>)
                       \o (IF Parts(data.items) # <<>>
                           THEN <<":", " ">> \o Join(<<";", " ">>, Parts(data.items))
                           ELSE <<>>)
             ELSE StructuredSentence

----------------------------------------------------------------------------
(* main: the pieces of the dispatcher. *)

AgentTurnComplete ==
    "agent-turn-complete"

\* Mutant of ArgsOk: extra arguments are tolerated.
ArgsOkAtLeastOne(n) ==
    n >= 1

\* len(sys.argv) != 2 is the usage error (line 108).
ArgsOk(n) ==
    n = 1

\* Mutant of IsAgentTurnComplete: only the type "other" is ignored.
IsAgentTurnCompleteUnlessOther(t) ==
    t # "other"

\* case "agent-turn-complete" (line 118); a missing type reads as None.
IsAgentTurnComplete(t) ==
    t = AgentTurnComplete

\* input_messages[0] if input_messages else "" (line 120).  The result is
\* [exc, v]: the exception raised ("none" if none) and the value.
FirstInput(im) ==
    CASE im.k = "absent" -> [exc |-> "none", v |-> JStr(<<>>)]
      [] im.k = "null"   -> [exc |-> "none", v |-> JStr(<<>>)]
      [] im.k = "num"    -> IF im.n # 0
                            THEN [exc |-> "TypeError", v |-> JNull]
                            ELSE [exc |-> "none", v |-> JStr(<<>>)]
      [] im.k = "list"   -> IF im.items # <<>>
                            THEN [exc |-> "none", v |-> im.items[1]]
                            ELSE [exc |-> "none", v |-> JStr(<<>>)]

\* Mutant of BuildTitle: the truthiness test of line 123 is dropped.
BuildTitleAlwaysPrefixed(im) ==
    LET fi == FirstInput(im)
    IN  IF fi.exc # "none"
        THEN [exc |-> fi.exc, v |-> <<>>]
        ELSE IF fi.v.k = "str"
             THEN [exc |-> "none", v |-> CodexPrefix \o ShortText(fi.v.s, 100)]
             ELSE IF Truthy(fi.v)
                  THEN [exc |-> "AttributeError", v |-> <<>>]
                  ELSE [exc |-> "none", v |-> CodexTitle]

\* Lines 123-126.  _short_text calls value.split(), which only a str has.
BuildTitle(im) ==
    LET fi == FirstInput(im)
    IN  IF fi.exc # "none"
        THEN [exc |-> fi.exc, v |-> <<>>]
        ELSE IF Truthy(fi.v)
             THEN IF fi.v.k = "str"
                  THEN [exc |-> "none", v |-> CodexPrefix \o ShortText(fi.v.s, 100)]
                  ELSE [exc |-> "AttributeError", v |-> <<>>]
             ELSE [exc |-> "none", v |-> CodexTitle]

\* notification.get("last-assistant-message") or "" (line 130)
AssistantMessage(am) ==
    IF Truthy(am) THEN am ELSE JStr(<<>>)

\* Mutant of LooksLikeJson: the string is tested without lstrip().
LooksLikeJsonNoStrip(v) ==
    \/ v.k \in {"dict", "list"}
    \/ v.k = "str" /\ v.s # <<>> /\ v.s[1] \in {"{", "["}

\* Lines 132-135, on the value of line 130.
LooksLikeJson(v) ==
    \/ v.k \in {"dict", "list"}
    \/ StrLooksLikeJson(v)

\* Lines 136-140.
ShapeMessage(am) ==
    LET assistant_message == AssistantMessage(am)
    IN  IF LooksLikeJson(assistant_message)
        THEN ShortText(SummarizeStructured(assistant_message), 300)
        ELSE ShortText(PyStr(assistant_message), 300)

ReplaceBraces(s) ==
    [i \in 1..Len(s) |-> CASE s[i] = "{" -> "("
                           [] s[i] = "}" -> ")"
                           [] OTHER      -> s[i]]

\* Mutant of PostProcess: a leading "-" gets no space in front.
PostProcessNoPrefix(m) ==
    ReplaceBraces(m)

\* Lines 144-146.
PostProcess(m) ==
    ReplaceBraces(IF StartsWith(m, <<"-">>) THEN <<" ">> \o m ELSE m)

\* "codex-" + str(notification.get("thread-id", "")) (lines 151-152)
Group(tid) ==
    GroupPrefix \o (IF tid.k = "absent" THEN <<>> ELSE PyStr(tid))

----------------------------------------------------------------------------
(* _send_notification: the two subprocess calls. *)

TerminalNotifier ==
    "terminal-notifier"

Osascript ==
    "osascript"

\* What subprocess.run(cmd, check=True, ...) can do for the primary call:
\* return, raise FileNotFoundError, raise CalledProcessError, or raise
\* something else (PermissionError, ValueError for an embedded NUL, ...).
PrimaryOutcomes ==
    {"ok", "FileNotFoundError", "CalledProcessError", "PermissionError"}

FallbackOutcomes ==
    {"ok", "FileNotFoundError", "CalledProcessError"}

\* The try body returns when the call did not raise (line 37).
PrimaryReturns(r) ==
    r = "ok"

\* Mutant of PrimaryCaught: every exception of the primary call is caught.
PrimaryCaughtAny(r) ==
    r # "ok"

\* The except clauses of lines 38-42.
PrimaryCaught(r) ==
    r \in {"FileNotFoundError", "CalledProcessError"}

\* json.dumps of a str: quoted, with ", \, control and non-ASCII codepoints
\* escaped (ensure_ascii).
EscapeChar(c) ==
    CASE c = "\""     -> <<"\\", "\"">>
      [] c = "\\"     -> <<"\\", "\\">>
      [] c = "TAB"    -> <<"\\", "t">>
      [] c = "U+00E2" -> <<"\\", "u", "0", "0", "e", "2">>
      [] c = "U+20AC" -> <<"\\", "u", "2", "0", "a", "c">>
      [] c = "U+00A6" -> <<"\\", "u", "0", "0", "a", "6">>
      [] OTHER        -> <<c>>

\* The escapes of s[lo..hi], concatenated.
RECURSIVE EscapeRange(_, _, _)
EscapeRange(s, lo, hi) ==
    IF lo > hi
    THEN <<>>
    ELSE IF lo = hi
         THEN EscapeChar(s[lo])
         ELSE LET mid == (lo + hi) \div 2
              IN  EscapeRange(s, lo, mid) \o EscapeRange(s, mid + 1, hi)

JsonDumps(s) ==
    <<"\"">> \o EscapeRange(s, 1, Len(s)) \o <<"\"">>

\* Line 47.
FallbackScript(t, m) ==
    ScriptHead \o JsonDumps(m) \o ScriptMid \o JsonDumps(t)

PrimaryCall(t, m, g) ==
    [cmd |-> TerminalNotifier, title |-> t, message |-> m, group |-> g, script |-> <<>>]

FallbackCall(t, m) ==
    [cmd |-> Osascript, title |-> t, message |-> m, group |-> <<>>,
     script |-> FallbackScript(t, m)]

----------------------------------------------------------------------------
(* The events main is run on. *)

\* Lengths around a truncation limit reach from limit - Slack to limit + Slack.
Slack ==
    1

MaxArgs ==
    2

Around(limit) ==
    (limit - Slack)..(limit + Slack)

ImVal(k, n, items) ==
    [k |-> k, n |-> n, items |-> items]

FirstInputValues ==
    {JStr(<<>>), JStr(<<"a">>), JStr(<<"TAB">>), JStr(<<" ", "a", "TAB", " ", "\"", "b", " ">>),
     JNum(0), JNum(5), JNull}
    \cup {JStr(Rep("a", n)) : n \in Around(100)}
    \cup {JStr(Rep("a", 98) \o <<" ">> \o Rep("b", n)) : n \in 1..(1 + Slack)}

InputMessagesValues ==
    {ImVal("absent", 0, <<>>), ImVal("null", 0, <<>>), ImVal("num", 0, <<>>),
     ImVal("num", 5, <<>>), ImVal("list", 0, <<>>),
     ImVal("list", 0, <<JStr(<<"a">>), JStr(<<"b">>)>>)}
    \cup {ImVal("list", 0, <<v>>) : v \in FirstInputValues}

TxtLongTitle(n) ==
    TxtLongHead \o Rep("a", n) \o TxtLongTail

AssistantStrings ==
    {<<>>, <<"a">>, <<"-", "a">>, <<" ", "-", "TAB", "a">>, <<"a", "{", "b", "}">>,
     <<"-", "{", "}">>, <<"{", "a", "}">>, <<"TAB", "{", "a">>, <<"[", "a">>,
     TxtEmptyFindings, TxtTwoFindings, TxtEmptyDict, TxtEmptyList, TxtOtherDict,
     TxtBroken, <<" ">> \o TxtEmptyFindings}
    \cup {Rep("a", n) : n \in Around(300)}
    \cup {<<"-">> \o Rep("a", n) : n \in Around(299)}
    \cup {Rep("a", 298) \o <<" ">> \o Rep("b", n) : n \in 1..(1 + Slack)}
    \cup {TxtLongTitle(n) : n \in Around(268)}

SampleFindings ==
    <<Finding(TRUE, "str", <<"{", "X", "}">>, "int", 1),
      Finding(TRUE, "str", <<"Y">>, "absent", 0),
      Finding(FALSE, "absent", <<>>, "absent", 0),
      Finding(TRUE, "absent", <<>>, "int", 2),
      Finding(TRUE, "str", <<"Z">>, "null", 0)>>

AssistantValues ==
    {JAbsent, JNull, JNum(0), JNum(7), JDict(0), JDict(1), JList(0), JList(2),
     JFindingsNotList, JFindings(<<>>), JFindings(SampleFindings),
     JFindings(SubSeq(SampleFindings, 1, 1))}
    \cup {JStr(s) : s \in AssistantStrings}

ThreadIdValues ==
    {JAbsent, JStr(<<"t", "1">>)}

TypeValues ==
    {AgentTurnComplete, "other", "absent"}

Event(isMapping, type, im, am, tid) ==
    [isMapping |-> isMapping, type |-> type, im |-> im, am |-> am, tid |-> tid]

\* A JSON document that is not an object (a list, a number, a string, null).
NotAMapping ==
    Event(FALSE, "absent", ImVal("absent", 0, <<>>), JAbsent, JAbsent)

\* Events of the type main acts on carry every combination of the fields;
\* events of the other types, whose fields main never reads, a few.
Events ==
    {NotAMapping}
    \cup {Event(TRUE, AgentTurnComplete, im, am, tid) :
             im \in InputMessagesValues, am \in AssistantValues, tid \in ThreadIdValues}
    \cup {Event(TRUE, t, im, am, tid) :
             t \in TypeValues \ {AgentTurnComplete},
             im \in {ImVal("absent", 0, <<>>), ImVal("list", 0, <<JStr(<<"a">>)>>)},
             am \in {JAbsent, JStr(<<"-", "a">>), JFindings(<<>>)},
             tid \in ThreadIdValues}

\* What json.loads(sys.argv[1]) does: raise JSONDecodeError or return a value.
Args ==
    {[ok |-> FALSE, value |-> NotAMapping]}
    \cup {[ok |-> TRUE, value |-> e] : e \in Events}

MainIdle ==
    /\ pc = "idle"
    /\ argc = 0
    /\ arg = [ok |-> FALSE, value |-> NotAMapping]
    /\ notification = NotAMapping
    /\ title = <<>>
    /\ shaped = <<>>
    /\ message = <<>>
    /\ summarized = FALSE
    /\ calls = <<>>
    /\ primaryResult = "none"
    /\ fallbackResult = "none"
    /\ exitCode = -1
    /\ raised = "none"

StIdle ==
    [pc |-> "idle", value |-> <<>>, max_chars |-> 0, result |-> <<>>]

SmIdle ==
    [pc |-> "idle", msg |-> JNull, result |-> <<>>]

----------------------------------------------------------------------------
(* main, step by step. *)

Init ==
    /\ pc = "start"
    /\ argc \in 0..MaxArgs
    /\ arg \in (IF argc = 0 THEN {[ok |-> FALSE, value |-> NotAMapping]} ELSE Args)
    /\ notification = NotAMapping
    /\ title = <<>>
    /\ shaped = <<>>
    /\ message = <<>>
    /\ summarized = FALSE
    /\ calls = <<>>
    /\ primaryResult = "none"
    /\ fallbackResult = "none"
    /\ exitCode = -1
    /\ raised = "none"
    /\ st = StIdle
    /\ sm = SmIdle

\* Lines 108-110.
CheckArgs ==
    /\ pc = "start"
    /\ IF ArgsOk(argc)
       THEN pc' = "parse" /\ UNCHANGED exitCode
       ELSE pc' = "done" /\ exitCode' = 1
    /\ UNCHANGED <<argc, arg, notification, title, shaped, message, summarized,
                   calls, primaryResult, fallbackResult, raised, st, sm>>

\* Lines 112-115.
ParseArg ==
    /\ pc = "parse"
    /\ IF arg.ok
       THEN pc' = "dispatch" /\ notification' = arg.value /\ UNCHANGED exitCode
       ELSE pc' = "done" /\ exitCode' = 1 /\ UNCHANGED notification
    /\ UNCHANGED <<argc, arg, title, shaped, message, summarized,
                   calls, primaryResult, fallbackResult, raised, st, sm>>

\* Lines 117-118 and 147-149.  notification.get exists only on a dict.
Dispatch ==
    /\ pc = "dispatch"
    /\ IF ~notification.isMapping
       THEN pc' = "raised" /\ raised' = "AttributeError" /\ UNCHANGED exitCode
       ELSE IF IsAgentTurnComplete(notification.type)
            THEN pc' = "title" /\ UNCHANGED <<raised, exitCode>>
            ELSE pc' = "done" /\ exitCode' = 0 /\ UNCHANGED raised
    /\ UNCHANGED <<argc, arg, notification, title, shaped, message, summarized,
                   calls, primaryResult, fallbackResult, st, sm>>

\* Lines 119-126.
MakeTitle ==
    /\ pc = "title"
    /\ LET t == BuildTitle(notification.im)
       IN  IF t.exc = "none"
           THEN pc' = "message" /\ title' = t.v /\ UNCHANGED raised
           ELSE pc' = "raised" /\ raised' = t.exc /\ UNCHANGED title
    /\ UNCHANGED <<argc, arg, notification, shaped, message, summarized,
                   calls, primaryResult, fallbackResult, exitCode, st, sm>>

\* Lines 130-140.
MakeMessage ==
    /\ pc = "message"
    /\ summarized' = LooksLikeJson(AssistantMessage(notification.am))
    /\ shaped' = ShapeMessage(notification.am)
    /\ message' = ShapeMessage(notification.am)
    /\ pc' = "sanitize"
    /\ UNCHANGED <<argc, arg, notification, title,
                   calls, primaryResult, fallbackResult, exitCode, raised, st, sm>>

\* Lines 144-146.
Sanitize ==
    /\ pc = "sanitize"
    /\ message' = PostProcess(message)
    /\ pc' = "send"
    /\ UNCHANGED <<argc, arg, notification, title, shaped, summarized,
                   calls, primaryResult, fallbackResult, exitCode, raised, st, sm>>

\* Lines 151-152 and 21-44: the terminal-notifier call and what follows it.
SendPrimary ==
    /\ pc = "send"
    /\ \E r \in PrimaryOutcomes :
          /\ calls' = Append(calls, PrimaryCall(title, message, Group(notification.tid)))
          /\ primaryResult' = r
          /\ IF PrimaryReturns(r)
             THEN pc' = "return" /\ UNCHANGED raised
             ELSE IF PrimaryCaught(r)
                  THEN pc' = "fallback" /\ UNCHANGED raised
                  ELSE pc' = "raised" /\ raised' = r
    /\ UNCHANGED <<argc, arg, notification, title, shaped, message, summarized,
                   fallbackResult, exitCode, st, sm>>

\* Lines 46-51: the osascript call; `except Exception` swallows any failure.
SendFallback ==
    /\ pc = "fallback"
    /\ \E r \in FallbackOutcomes :
          /\ calls' = Append(calls, FallbackCall(title, message))
          /\ fallbackResult' = r
    /\ pc' = "return"
    /\ UNCHANGED <<argc, arg, notification, title, shaped, message, summarized,
                   primaryResult, exitCode, raised, st, sm>>

\* Line 154.
Return ==
    /\ pc = "return"
    /\ exitCode' = 0
    /\ pc' = "done"
    /\ UNCHANGED <<argc, arg, notification, title, shaped, message, summarized,
                   calls, primaryResult, fallbackResult, raised, st, sm>>

Next ==
    \/ CheckArgs
    \/ ParseArg
    \/ Dispatch
    \/ MakeTitle
    \/ MakeMessage
    \/ Sanitize
    \/ SendPrimary
    \/ SendFallback
    \/ Return

Spec ==
    Init /\ [][Next]_vars

----------------------------------------------------------------------------
(* A single call of _short_text on inputs drawn from bounded sets. *)

ShortAlphabet ==
    {"a", "b", " ", "TAB"}

ShortValues ==
    UNION { [1..n -> ShortAlphabet] : n \in 0..MaxLen }

InitShort ==
    /\ MainIdle
    /\ sm = SmIdle
    /\ \E v \in ShortValues, m \in 1..MaxChars :
          st = [pc |-> "call", value |-> v, max_chars |-> m, result |-> <<>>]

CallShortText ==
    /\ st.pc = "call"
    /\ st' = [st EXCEPT !.pc = "done", !.result = ShortText(st.value, st.max_chars)]
    /\ UNCHANGED <<mainVars, sm>>

NextShort ==
    CallShortText

SpecShort ==
    InitShort /\ [][NextShort]_vars

----------------------------------------------------------------------------
(* A single call of _summarize_structured on inputs drawn from bounded sets. *)

MaxFindings ==
    4

FindingItems ==
    {Finding(TRUE, "str", <<"X">>, "int", 1),
     Finding(TRUE, "str", <<"Y">>, "absent", 0),
     Finding(TRUE, "str", <<" ", "Z", "TAB">>, "null", 0),
     Finding(TRUE, "absent", <<>>, "int", 2),
     Finding(TRUE, "absent", <<>>, "absent", 0),
     Finding(FALSE, "absent", <<>>, "absent", 0)}

SumInputs ==
    {JFindings(items) : items \in UNION {[1..n -> FindingItems] : n \in 0..MaxFindings}}
    \cup {JDict(0), JDict(1), JList(0), JList(2), JFindingsNotList, JNum(7), JStr(<<"a">>)}
    \cup {JStr(t) : t \in {TxtEmptyFindings, TxtTwoFindings, TxtEmptyDict, TxtEmptyList,
                           TxtOtherDict, TxtBroken, <<"{", "a", "}">>, <<"[", "a">>,
                           <<" ">> \o TxtTwoFindings, TxtLongTitle(2)}}

InitSum ==
    /\ MainIdle
    /\ st = StIdle
    /\ \E m \in SumInputs : sm = [pc |-> "call", msg |-> m, result |-> <<>>]

CallSummarize ==
    /\ sm.pc = "call"
    /\ sm' = [sm EXCEPT !.pc = "done", !.result = SummarizeStructured(sm.msg)]
    /\ UNCHANGED <<mainVars, st>>

NextSum ==
    CallSummarize

SpecSum ==
    InitSum /\ [][NextSum]_vars

----------------------------------------------------------------------------
(* Properties of main. *)

\* The run has a single argument that json.loads turns into an object.
RunsOnEvent ==
    argc = 1 /\ arg.ok /\ arg.value.isMapping

\* C1: a run on an event whose type is not "agent-turn-complete" (a missing
\* type included) invokes neither terminal-notifier nor osascript, raises
\* nothing, and returns exit code 0.
C1_OtherTypesSendNothing ==
    (RunsOnEvent /\ arg.value.type # "agent-turn-complete") =>
        /\ calls = <<>>
        /\ pc \in {"start", "parse", "dispatch", "done"}
        /\ pc = "done" => exitCode = 0

C1_Witness ==
    /\ RunsOnEvent
    /\ arg.value.type = "absent"
    /\ pc = "done"
    /\ exitCode = 0
    /\ calls = <<>>

\* C2: a run whose number of CLI arguments is not exactly one, or whose
\* single argument json.loads rejects, invokes no notifier and returns exit
\* code 1.
C2_UsageAndParseErrors ==
    (argc # 1 \/ ~arg.ok) =>
        /\ calls = <<>>
        /\ pc \in {"start", "parse", "done"}
        /\ pc = "done" => exitCode = 1

C2_Witness ==
    /\ argc = 2
    /\ arg.ok
    /\ arg.value.type = "agent-turn-complete"
    /\ pc = "done"
    /\ exitCode = 1
    /\ calls = <<>>

\* C3: a run whose single argument parses as JSON never ends in an exception
\* and returns exit code 0, whatever the parsed value and whatever the two
\* notifier calls do.
C3_NoExceptionEscapes ==
    (argc = 1 /\ arg.ok) =>
        /\ pc # "raised"
        /\ pc = "done" => exitCode = 0

\* C4: osascript is invoked iff terminal-notifier was invoked first and failed
\* (executable missing or non-zero exit); each of the two is invoked at most
\* once and terminal-notifier comes first.
C4_FallbackOnlyAfterPrimaryFailure ==
    /\ Len(calls) <= 2
    /\ Len(calls) >= 1 => calls[1].cmd = "terminal-notifier"
    /\ Len(calls) = 2 =>
          /\ calls[2].cmd = "osascript"
          /\ primaryResult \in {"FileNotFoundError", "CalledProcessError"}
    /\ primaryResult = "ok" => Len(calls) = 1
    /\ (pc \in {"return", "done", "raised"}
        /\ primaryResult \in {"FileNotFoundError", "CalledProcessError"}) => Len(calls) = 2

C4_Witness ==
    /\ pc = "done"
    /\ primaryResult = "CalledProcessError"
    /\ Len(calls) = 2
    /\ calls[1].cmd = "terminal-notifier"
    /\ calls[2].cmd = "osascript"

\* The part of an osascript script that holds the JSON-encoded message.
ScriptMessage(c) ==
    SubSeq(c.script, Len(ScriptHead) + 1,
           Len(c.script) - Len(ScriptMid) - Len(JsonDumps(c.title)))

\* C6: the message of every notifier call (terminal-notifier argument and
\* osascript script alike) does not begin with "-" and holds no "{" or "}":
\* it is the shaped message with one space put in front when that begins
\* with "-", and with every "{" turned into "(" and every "}" into ")".
C6_MessageSanitized ==
    \A i \in 1..Len(calls) :
        LET m      == calls[i].message
            off    == IF shaped # <<>> /\ shaped[1] = "-" THEN 1 ELSE 0
            quoted == ScriptMessage(calls[i])
        IN  /\ m # <<>> => m[1] # "-"
            /\ \A j \in 1..Len(m) : m[j] \notin {"{", "}"}
            /\ Len(m) = Len(shaped) + off
            /\ off = 1 => m[1] = " "
            /\ \A j \in 1..Len(shaped) :
                  m[j + off] = (CASE shaped[j] = "{" -> "("
                                  [] shaped[j] = "}" -> ")"
                                  [] OTHER -> shaped[j])
            /\ calls[i].cmd = "osascript" =>
                  /\ Len(quoted) >= 2
                  /\ quoted[1] = "\"" /\ quoted[2] # "-"
                  /\ \A j \in 1..Len(quoted) : quoted[j] \notin {"{", "}"}

C6_Witness ==
    /\ Len(calls) = 2
    /\ shaped = <<"-", "{", "}">>
    /\ calls[2].message = <<" ", "-", "(", ")">>

\* First codepoint of s that is not whitespace is "{" or "[".
OpensJson(s) ==
    \E i \in 1..Len(s) :
        /\ s[i] \in {"{", "["}
        /\ \A j \in 1..(i - 1) : s[j] \in {" ", "TAB"}

\* The shaped message has been computed.
Shaped ==
    pc \in {"sanitize", "send", "fallback", "return"} \/ (pc \in {"done", "raised"} /\ calls # <<>>)

\* C8 as stated: the summarizer is used exactly when last-assistant-message
\* is an object or array (an empty one included) or a string that starts
\* with "{" or "["; the message is then the summary cut by _short_text to
\* 300, and otherwise the plain string cut to 300.
C8_AsStated ==
    Shaped =>
        LET am == notification.am
            structured == \/ am.k \in {"dict", "list"}
                          \/ am.k = "str" /\ am.s # <<>> /\ am.s[1] \in {"{", "["}
        IN  IF structured
            THEN summarized /\ shaped = ShortText(SummarizeStructured(am), 300)
            ELSE ~summarized

\* C8 amended: the summarizer is used exactly when last-assistant-message is
\* a non-empty object or array, or a string whose first non-whitespace
\* codepoint is "{" or "[" (such a string that is not JSON gives the fixed
\* fallback sentence); every other value is shaped as a plain string, and an
\* absent, null, zero, empty-object or empty-array value as the empty string.
C8_SummarizerBranch ==
    Shaped =>
        LET am == notification.am
            nonEmptyStructure ==
                \/ am.k = "list" /\ am.n > 0
                \/ am.k = "dict" /\ (am.n > 0 \/ am.fk # "absent")
            jsonLikeString == am.k = "str" /\ OpensJson(am.s)
            emptyValue ==
                \/ am.k \in {"absent", "null"}
                \/ am.k = "num" /\ am.n = 0
                \/ am.k \in {"list", "dict"} /\ ~nonEmptyStructure
        IN  /\ summarized <=> (nonEmptyStructure \/ jsonLikeString)
            /\ summarized => shaped = ShortText(SummarizeStructured(am), 300)
            /\ (jsonLikeString /\ ~JsonLoads(am.s).ok) => shaped = FullDetailsSentence
            /\ emptyValue => shaped = <<>>
            /\ (am.k = "str" /\ ~jsonLikeString) => shaped = ShortText(am.s, 300)
            /\ (am.k = "num" /\ am.n # 0) => shaped = ShortText(ToStr(am.n), 300)

C8_Witness ==
    /\ pc = "send"
    /\ notification.am = JStr(<<"TAB", "{", "a">>)
    /\ summarized
    /\ shaped = FullDetailsSentence

\* C9 as stated: the title of every notifier call is "Codex: " followed by
\* _short_text(first input message, 100) when input-messages has a first
\* element, and "Codex" when input-messages is absent or empty.
C9_AsStated ==
    \A i \in 1..Len(calls) :
        LET im == notification.im
        IN  IF im.k = "list" /\ im.items # <<>>
            THEN im.items[1].k = "str" =>
                    calls[i].title = CodexPrefix \o ShortText(im.items[1].s, 100)
            ELSE calls[i].title = CodexTitle

\* C9 amended: the title of every notifier call is "Codex: " followed by
\* _short_text(first input message, 100) when input-messages has a non-empty
\* string as its first element, and the literal "Codex" when input-messages
\* is absent, null, empty, or its first element is an empty string, zero or
\* null; the title always starts with "Codex".
C9_TitleFromFirstInput ==
    \A i \in 1..Len(calls) :
        LET im    == notification.im
            t     == calls[i].title
            first == im.items[1]
        IN  /\ SubSeq(t, 1, 5) = <<"C", "o", "d", "e", "x">>
            /\ (im.k = "list" /\ im.items # <<>> /\ first.k = "str" /\ first.s # <<>>) =>
                  t = <<"C", "o", "d", "e", "x", ":", " ">> \o ShortText(first.s, 100)
            /\ (im.k = "list" /\ im.items # <<>> /\ first.k = "str" /\ first.s = <<>>) =>
                  t = <<"C", "o", "d", "e", "x">>
            /\ (im.k = "list" /\ im.items # <<>> /\ first.k = "num" /\ first.n = 0) =>
                  t = <<"C", "o", "d", "e", "x">>
            /\ (im.k = "list" /\ im.items # <<>> /\ first.k = "null") =>
                  t = <<"C", "o", "d", "e", "x">>
            /\ (im.k \in {"absent", "null"} \/ (im.k = "list" /\ im.items = <<>>)) =>
                  t = <<"C", "o", "d", "e", "x">>

C9_Witness ==
    /\ Len(calls) = 2
    /\ notification.im = ImVal("list", 0, <<JStr(<<>>)>>)
    /\ calls[1].title = <<"C", "o", "d", "e", "x">>
    /\ calls[2].title = <<"C", "o", "d", "e", "x">>

\* C10: the message of every notifier call, after truncation and
\* post-processing, is at most 300 codepoints long.
C10_MessageAtMost300 ==
    \A i \in 1..Len(calls) : Len(calls[i].message) <= 300

----------------------------------------------------------------------------
(* Properties of _short_text. *)

\* C5: whenever the whitespace-collapsed input is longer than max_chars the
\* result of _short_text has exactly max_chars codepoints and ends with the
\* ellipsis marker; otherwise the result is the collapsed input unchanged.
C5_ExactLength ==
    st.pc = "done" =>
        IF Len(Collapse(st.value)) > st.max_chars
        THEN Len(st.result) = st.max_chars /\ EndsWith(st.result, Ellipsis)
        ELSE st.result = Collapse(st.value)

----------------------------------------------------------------------------
(* Properties of _summarize_structured. *)

SpecExampleSummary ==
    <<"R", "e", "v", "i", "e", "w", " ", "c", "o", "m", "p", "l", "e", "t", "e", " ", "w", "i", "t", "h", " ", "2", " ", "f", "i", "n", "d", "i", "n", "g", "s", ":", " ", "[", "P", "1", "]", " ", "X", ";", " ", "Y">>

\* The value the summarizer works on: msg itself, or what a JSON-looking
\* string parses to.
SumData ==
    IF sm.msg.k = "str" THEN JsonLoads(sm.msg.s).v ELSE sm.msg

\* A finding with a title that needs no trimming and a priority that is a
\* number or absent.
TitledFinding(f) ==
    /\ f.isDict
    /\ f.tk = "str" /\ f.ts # <<>>
    /\ f.ts[1] \notin {" ", "TAB"} /\ f.ts[Len(f.ts)] \notin {" ", "TAB"}
    /\ f.pk \in {"int", "absent"}

Rendered(f) ==
    IF f.pk = "int"
    THEN <<"[", "P", DigitChars[f.pn + 1], "]", " ">> \o f.ts
    ELSE f.ts

CountSentence(n) ==
    ReviewPrefix \o ToStr(n) \o <<" ", "f", "i", "n", "d", "i", "n", "g">>
    \o (IF n = 1 THEN <<>> ELSE <<"s">>)

====
